---- MODULE Spec2Model ----
\* Model of src/database.py: the ban-text parser, the egress-address
\* normalisation and the Database operations, run by concurrent asyncio tasks
\* over one SQLite store.
\*
\* Storage-engine semantics the operations rely on (SQLAlchemy / SQLite):
\*   - Session.merge(obj) of an object whose primary key is None adds a new
\*     pending object; commit() flushes it as an INSERT.
\*   - Ban.host carries a UNIQUE constraint (Field(unique=True)); an INSERT of
\*     a second row with the same host fails with IntegrityError and the
\*     transaction is rolled back. User.name carries no constraint.
\*   - Result.one_or_none() returns None for no row, the row for one row and
\*     raises MultipleResultsFound for more than one.
\*   - A SELECT does not open a snapshot: every statement reads the rows
\*     committed at the moment it runs.
\*   - Every awaited database call is a point where another task may run.
\*   - user.bans is one more SELECT, of the bans whose owner is the user.
\* The engine, the schema creation and the link from Ban to its owning User
\* are taken to work as the declarations of the source intend.
\* A step of a task runs from one await to the next: it executes the awaited
\* statement and the code that follows it up to the next statement.
\* Strings are sequences of one-character strings; an Optional value is the
\* empty sequence (None) or a one-element sequence.
EXTENDS Integers, Sequences, FiniteSets, TLC

None == <<>>
Some(v) == <<v>>

----------------------------------------------------------------------------
\* Python string primitives used by the source

\* str.find(c, start): lowest 0-based index >= start of character c, or -1
RECURSIVE Find(_, _, _)
Find(s, c, start) ==
    IF start >= Len(s) THEN -1
    ELSE IF s[start + 1] = c THEN start
    ELSE Find(s, c, start + 1)

\* str.rfind(c): highest 0-based index of character c, or -1
RECURSIVE RFindFrom(_, _, _)
RFindFrom(s, c, i) ==
    IF i < 0 THEN -1
    ELSE IF s[i + 1] = c THEN i
    ELSE RFindFrom(s, c, i - 1)

RFind(s, c) == RFindFrom(s, c, Len(s) - 1)

\* s[i:j] for 0 <= i, 0 <= j
PySlice(s, i, j) ==
    LET hi == IF j > Len(s) THEN Len(s) ELSE j
    IN  IF i >= hi THEN <<>> ELSE SubSeq(s, i + 1, hi)

\* str.split(sep, maxsplit) for a one-character separator
RECURSIVE Split(_, _, _)
Split(s, sep, maxsplit) ==
    LET i == Find(s, sep, 0)
    IN  IF maxsplit = 0 \/ i = -1 THEN <<s>>
        ELSE <<PySlice(s, 0, i)>> \o Split(PySlice(s, i + 1, Len(s)), sep, maxsplit - 1)

Whitespace == {" "}

\* str.rstrip()
RECURSIVE RStrip(_)
RStrip(s) ==
    IF Len(s) > 0 /\ s[Len(s)] \in Whitespace
    THEN RStrip(SubSeq(s, 1, Len(s) - 1))
    ELSE s

EndsWith(s, c) == Len(s) > 0 /\ s[Len(s)] = c

\* "sub in s" for a substring sub
Contains(s, sub) ==
    \E i \in 0..(Len(s) - Len(sub)) : SubSeq(s, i + 1, i + Len(sub)) = sub

UpperOf == [c \in {"h", "g"} |-> IF c = "h" THEN "H" ELSE "G"]

\* str.lower() on one character
LowerChar(c) ==
    IF \E l \in DOMAIN UpperOf : UpperOf[l] = c
    THEN CHOOSE l \in DOMAIN UpperOf : UpperOf[l] = c
    ELSE c

Lower(s) == [i \in 1..Len(s) |-> LowerChar(s[i])]

\* code points of the characters that occur in passwords
Ord == [c \in {"p", "q"} |-> IF c = "p" THEN 112 ELSE 113]

\* str.encode("utf-8") on ASCII text
EncodeUtf8(s) == [i \in 1..Len(s) |-> Ord[s[i]]]

----------------------------------------------------------------------------
\* Outcomes of a call: a returned value or a raised exception

Return(v) == [exc |-> "", val |-> v]
Raise(e) == [exc |-> e, val |-> None]

\* d ^ k on the low n bits of two byte values
RECURSIVE XorBits(_, _, _)
XorBits(d, k, n) ==
    IF n = 0 THEN 0
    ELSE (((d % 2) + (k % 2)) % 2) + 2 * XorBits(d \div 2, k \div 2, n - 1)

\* d ^ k for two bytes
Xor(d, k) == XorBits(d, k, 8)

\* zip(data, itertools.cycle(key)) mapped with ^: the key is repeated from
\* position pos on; the pairing ends when data ends or when the key has no
\* item to give
RECURSIVE XorZip(_, _, _)
XorZip(data, key, pos) ==
    IF data = <<>> \/ key = <<>> THEN <<>>
    ELSE <<Xor(Head(data), key[pos])>>
            \o XorZip(Tail(data), key, IF pos = Len(key) THEN 1 ELSE pos + 1)

\* cyclic_xor pairing the data with the key once, without repeating it
cyclic_xor_no_cycle(data, key) ==
    Return([i \in 1..(IF Len(data) < Len(key) THEN Len(data) ELSE Len(key)) |->
                Xor(data[i], key[i])])

\* cyclic_xor
cyclic_xor(data, key) == Return(XorZip(data, key, 1))

\* parse_ban taking the first "(" of the reason instead of the last
parse_ban_first_paren(raw_ban_str) ==
    LET parts == Split(raw_ban_str, "_", 2)
    IN  IF Len(parts) # 3 THEN Raise("ValueError")
        ELSE LET reason == RStrip(parts[3])
             IN  IF EndsWith(reason, ")") /\ Find(reason, "(", 0) # -1
                 THEN Return(Some(PySlice(reason, Find(reason, "(", 0) + 1, RFind(reason, ")"))))
                 ELSE Return(None)

\* parse_ban returning None for a text it cannot split in three
parse_ban_lenient(raw_ban_str) ==
    LET parts == Split(raw_ban_str, "_", 2)
    IN  IF Len(parts) # 3 THEN Return(None)
        ELSE LET reason == RStrip(parts[3])
             IN  IF EndsWith(reason, ")") /\ RFind(reason, "(") # -1
                 THEN Return(Some(PySlice(reason, RFind(reason, "(") + 1, RFind(reason, ")"))))
                 ELSE Return(None)

\* parse_ban: the user named at the end of the ban text, None, or ValueError
\* when the text has fewer than two "_" (the unpacking of split fails)
parse_ban(raw_ban_str) ==
    LET parts == Split(raw_ban_str, "_", 2)
    IN  IF Len(parts) # 3 THEN Raise("ValueError")
        ELSE LET reason == RStrip(parts[3])
             IN  IF EndsWith(reason, ")") /\ RFind(reason, "(") # -1
                 THEN Return(Some(PySlice(reason, RFind(reason, "(") + 1, RFind(reason, ")"))))
                 ELSE Return(None)

\* fix_skid_proxy leaving every address as it is
fix_skid_proxy_noop(ip) == ip

\* fix_skid_proxy: an address without "://" gets the scheme all
fix_skid_proxy(ip) ==
    IF ~Contains(ip, <<":", "/", "/">>) THEN <<"a", "l", "l", ":", "/", "/">> \o ip ELSE ip

SchemeChars == {"a", "l", "s", "h", "g", "H", "G", "1", "p", "q"}
Alpha == {"a", "l", "s", "h", "g", "H", "G", "p", "q"}

\* index of the first of "/", "?", "#" at or after start, or Len(s)
RECURSIVE NetlocEnd(_, _)
NetlocEnd(s, start) ==
    IF start >= Len(s) THEN Len(s)
    ELSE IF s[start + 1] \in {"/", "?", "#"} THEN start
    ELSE NetlocEnd(s, start + 1)

\* urlparse(url).netloc
UrlNetloc(url) ==
    LET i == Find(url, ":", 0)
        hasScheme == i > 0 /\ url[1] \in Alpha
                     /\ \A k \in 1..i : url[k] \in SchemeChars
        rest == IF hasScheme THEN PySlice(url, i + 1, Len(url)) ELSE url
    IN  IF PySlice(rest, 0, 2) = <<"/", "/">>
        THEN PySlice(rest, 2, NetlocEnd(rest, 2))
        ELSE <<>>

\* urlparse(url).netloc without its user part taken for the hostname: the
\* port stays in the key
UrlHostname_with_port(url) ==
    LET netloc == UrlNetloc(url)
        at == RFind(netloc, "@")
        hostinfo == IF at = -1 THEN netloc ELSE PySlice(netloc, at + 1, Len(netloc))
    IN  IF hostinfo = <<>> THEN None ELSE Some(Lower(hostinfo))

\* urlparse(url).hostname: Some(host) or None
UrlHostname(url) ==
    LET netloc == UrlNetloc(url)
        at == RFind(netloc, "@")
        hostinfo == IF at = -1 THEN netloc ELSE PySlice(netloc, at + 1, Len(netloc))
        colon == Find(hostinfo, ":", 0)
        hostname == IF colon = -1 THEN hostinfo ELSE PySlice(hostinfo, 0, colon)
    IN  IF hostname = <<>> THEN None ELSE Some(Lower(hostname))

\* the host key both proxy_is_banned and issue_ban compute from a proxy
HostOf(proxy) == UrlHostname(fix_skid_proxy(proxy))

----------------------------------------------------------------------------
\* Inputs of the calls

Tasks == {"t1", "t2"}

Names == {<<"a">>, <<"b">>}

Credentials ==
    { [password |-> <<"p">>, accountID |-> 5],
      [password |-> <<"q">>, accountID |-> 6] }

TextNamesA == <<"1", "_", "2", "_", "r", " ", "(", "a", ")">>
TextNoUser == <<"1", "_", "2", "_", "r">>
TextOneSep == <<"1", "_", "r">>

BanTexts == {TextNamesA, TextNoUser, TextOneSep}

Proxies == { <<"h">>, <<"s", ":", "/", "/", "H", ":", "1">>, <<"g", ":", "1">> }

\* the forms of an address of host h, and the bare address of host g
BareH == <<"h">>
PortH == <<"h", ":", "1">>
SchemeH == <<"s", ":", "/", "/", "h", ":", "1">>
BareG == <<"g">>

AddressForms == {BareH, PortH, SchemeH, BareG}

\* bound on the number of rows of the user table
MaxUsers == 2

----------------------------------------------------------------------------
\* State

VARIABLES
    users,          \* rows of table user: [id, name, password, accountID]
    bans,           \* rows of table ban: [id, host, raw_ban_str, real_user, user_id]
    initalized,     \* Database.initalized
    createAllRuns,  \* history: how many times init_db ran metadata.create_all
    pc,             \* per task: the await it is suspended at
    op,             \* per task: the call it is running, with its arguments
    user,           \* per task: local variable user of user_is_banned
    ret,            \* per task: the call it finished last and its outcome
    atomic,         \* history: per task in user_is_banned, the outcomes the call
                    \* gives when run in one piece on a store state that existed during it
    arg,            \* the arguments of a direct call of a module-level function
    out             \* the outcome of that call

vars == <<users, bans, initalized, createAllRuns, pc, op, user, ret, atomic, arg, out>>

Idle == [name |-> "idle"]
NoArg == [fn |-> ""]
NoOut == Raise("not called")
NoRet == [call |-> Idle, exc |-> "", val |-> None]

\* the host key of every proxy the callers pass
HostKey == [p \in Proxies \cup AddressForms |-> HostOf(p)]

\* the parse of every ban text the callers pass
ParsedBan == [s \in BanTexts |-> parse_ban(s)]

\* the id SQLite gives the next row of a table: largest rowid + 1
NextId(rows) ==
    IF rows = {} THEN 1
    ELSE 1 + (CHOOSE m \in {r.id : r \in rows} : \A r \in rows : r.id <= m)

\* Result.one(): no row is an error too
OneRow(rows) ==
    IF rows = {} THEN Raise("NoResultFound")
    ELSE IF Cardinality(rows) = 1 THEN Return(Some(CHOOSE r \in rows : TRUE))
    ELSE Raise("MultipleResultsFound")

\* Result.one_or_none()
OneOrNone(rows) ==
    IF rows = {} THEN Return(None)
    ELSE IF Cardinality(rows) = 1 THEN Return(Some(CHOOSE r \in rows : TRUE))
    ELSE Raise("MultipleResultsFound")

\* select(Ban).where(Ban.host == host)
BansByHost(bs, host) == {b \in bs : b.host = host}

\* select(User).where(User.name == username)
UsersByName(us, username) == {u \in us : u.name = username}

\* the rows user.bans loads: the bans whose owner is this user
BansOfUser(bs, u) == {b \in bs : b.user_id = Some(u.id)}

\* select(Ban).where(Ban.real_user == username)
BansByRealUser(bs, username) == {b \in bs : b.real_user = Some(username)}

\* user_is_banned run without interruption on one store state
UserIsBannedOn(us, bs, username) ==
    LET found == OneOrNone(UsersByName(us, username))
    IN  IF found.exc # "" THEN found
        ELSE IF found.val = None THEN Raise("AttributeError")
        ELSE IF BansOfUser(bs, found.val[1]) # {} THEN Return(Some(TRUE))
        ELSE LET named == OneOrNone(BansByRealUser(bs, username))
             IN  IF named.exc # "" THEN named
                 ELSE IF named.val # None THEN Return(Some(TRUE))
                 ELSE Return(Some(FALSE))

Init ==
    /\ users = {}
    /\ bans = {}
    /\ initalized = FALSE
    /\ createAllRuns = 0
    /\ pc = [t \in Tasks |-> "idle"]
    /\ op = [t \in Tasks |-> Idle]
    /\ user = [t \in Tasks |-> None]
    /\ ret = [t \in Tasks |-> NoRet]
    /\ atomic = [t \in Tasks |-> {}]
    /\ arg = NoArg
    /\ out = NoOut

----------------------------------------------------------------------------
\* Calls

\* the tasks suspended in init_db on their way into new_bot_account, each
\* about to insert one row
PendingInserts == {t \in Tasks : op[t].name = "new_bot_account"}

\* the calls of one operation a task may start in the current state with
\* arguments from the input sets U (proxies are the addresses bans are issued
\* for, lookups the addresses that are checked); a caused_by account is an
\* object an earlier new_bot_account or get_bot returned, as it was returned
\* or with its password attribute set by the caller to one of U.rekeyed
Calls(U, name) ==
    CASE name = "proxy_is_banned" -> [name : {name}, proxy : U.lookups]
      [] name = "new_bot_account" ->
            {c \in [name : {name}, username : U.names, cred : U.creds] :
                Cardinality(users) + Cardinality(PendingInserts) < MaxUsers}
      [] name = "get_bot" -> [name : {name}, username : U.names]
      [] name = "issue_ban" ->
            [name : {name}, ban_str : U.texts,
             caused_by : {None} \cup {Some(u) : u \in users}
                            \cup {Some([u EXCEPT !.password = EncodeUtf8(s)]) :
                                    u \in users, s \in U.rekeyed},
             proxy : U.proxies]
      [] name = "user_is_banned" -> [name : {name}, username : U.names]
      [] name = "user_and_proxy_are_banned" ->
            [name : {name}, username : U.names, proxy : U.lookups]

Operations ==
    {"proxy_is_banned", "new_bot_account", "get_bot", "issue_ban",
     "user_is_banned", "user_and_proxy_are_banned"}

\* the call c of task t ends with the outcome; the task is free for its next call
Finish(t, c, outcome) ==
    /\ ret' = [ret EXCEPT ![t] = [call |-> c, exc |-> outcome.exc, val |-> outcome.val]]
    /\ pc' = [pc EXCEPT ![t] = "idle"]
    /\ op' = [op EXCEPT ![t] = Idle]
    /\ user' = [user EXCEPT ![t] = None]

\* the call c of task t is suspended at the await named next
Suspend(t, c, next) ==
    /\ pc' = [pc EXCEPT ![t] = next]
    /\ op' = [op EXCEPT ![t] = c]
    /\ UNCHANGED ret

\* the histories after a step of task t that leaves the store as (us, bs):
\* own is the history of t, every other running user_is_banned gets its
\* outcome on (us, bs) added
AtomicAfter(t, own, us, bs) ==
    [o \in Tasks |->
        IF o = t THEN own
        ELSE IF op[o].name = "user_is_banned"
        THEN atomic[o] \cup {UserIsBannedOn(us, bs, op[o].username)}
        ELSE atomic[o]]

\* SelectBanHost going on to user_is_banned whatever the host check found
SelectBanHost_no_short_circuit(t, c) ==
    /\ LET ban == OneOrNone(BansByHost(bans, HostKey[c.proxy]))
       IN  IF c.name = "proxy_is_banned" \/ ban.exc # ""
           THEN Finish(t, c, ban)
           ELSE Suspend(t, c, "uib_select_user") /\ UNCHANGED user
    /\ UNCHANGED <<users, bans, atomic>>

\* Database.proxy_is_banned from the open session on: the select by host.
\* Inside user_and_proxy_are_banned a found ban ends the call with True and
\* no ban leads on to user_is_banned
SelectBanHost(t, c) ==
    /\ LET ban == OneOrNone(BansByHost(bans, HostKey[c.proxy]))
       IN  IF c.name = "proxy_is_banned" \/ ban.exc # ""
           THEN Finish(t, c, ban)
           ELSE IF ban.val # None
           THEN Finish(t, c, Return(Some(TRUE)))
           ELSE Suspend(t, c, "uib_select_user") /\ UNCHANGED user
    /\ UNCHANGED <<users, bans, atomic>>

\* Database.new_bot_account from the open session on: merge of a User
\* without primary key, commit
MergeUserCommit(t, c) ==
    LET row == [id |-> NextId(users), name |-> c.username,
                password |-> EncodeUtf8(c.cred.password),
                accountID |-> c.cred.accountID]
    IN  /\ users' = users \cup {row}
        /\ Finish(t, c, Return(Some(row)))
        /\ atomic' = AtomicAfter(t, {}, users \cup {row}, bans)
        /\ UNCHANGED bans

\* Database.get_bot from the open session on
SelectUser(t, c) ==
    /\ Finish(t, c, OneOrNone(UsersByName(users, c.username)))
    /\ UNCHANGED <<users, bans, atomic>>

\* the rows of table ban after the INSERT of row, or the rows unchanged when
\* the constraints on host (NOT NULL, UNIQUE) reject it
InsertBan(bs, row) ==
    IF row.host = None \/ BansByHost(bs, row.host) # {} THEN bs ELSE bs \cup {row}

\* the rows of table user after the merge of a Ban whose user is caused_by:
\* the merge cascades along the relationship, so the state of the passed
\* object is copied onto the row of its primary key
MergeCausedBy(us, caused_by) ==
    IF caused_by = None THEN us
    ELSE {u \in us : u.id # caused_by[1].id} \cup {caused_by[1]}

\* MergeBanCommit recording a ban without attributed user when parse_ban fails
MergeBanCommit_swallow(t, c) ==
    LET parsed == ParsedBan[c.ban_str]
        row == [id |-> NextId(bans), host |-> HostKey[c.proxy],
                raw_ban_str |-> c.ban_str,
                real_user |-> parsed.val,
                user_id |-> IF c.caused_by = None THEN None
                            ELSE Some(c.caused_by[1].id)]
    IN  /\ bans' = InsertBan(bans, row)
        /\ Finish(t, c, IF parsed.exc # "" THEN parsed
                        ELSE IF row \in InsertBan(bans, row) THEN Return(None)
                        ELSE Raise("IntegrityError"))
        /\ atomic' = AtomicAfter(t, {}, users, InsertBan(bans, row))
        /\ UNCHANGED users

\* Database.issue_ban from the open session on: the Ban is built (parse_ban
\* may raise), merged without primary key together with its user and
\* committed; a rejected INSERT rolls the transaction back
MergeBanCommit(t, c) ==
    LET parsed == ParsedBan[c.ban_str]
        row == [id |-> NextId(bans), host |-> HostKey[c.proxy],
                raw_ban_str |-> c.ban_str,
                real_user |-> parsed.val,
                user_id |-> IF c.caused_by = None THEN None
                            ELSE Some(c.caused_by[1].id)]
    IN  /\ IF parsed.exc # ""
           THEN /\ Finish(t, c, parsed)
                /\ UNCHANGED <<users, bans, atomic>>
           ELSE IF row \in InsertBan(bans, row)
           THEN /\ bans' = InsertBan(bans, row)
                /\ users' = MergeCausedBy(users, c.caused_by)
                /\ Finish(t, c, Return(None))
                /\ atomic' = AtomicAfter(t, {}, MergeCausedBy(users, c.caused_by),
                                         InsertBan(bans, row))
           ELSE /\ Finish(t, c, Raise("IntegrityError"))
                /\ atomic' = AtomicAfter(t, {}, users, bans)
                /\ UNCHANGED <<users, bans>>

\* Database.user_is_banned from the open session on, first statement: the
\* select of the user by name, followed without an await by the access
\* user.bans, which fails on None
UibSelectUser(t, c) ==
    /\ LET found == OneOrNone(UsersByName(users, c.username))
       IN  IF found.exc # ""
           THEN Finish(t, c, found)
           ELSE IF found.val = None
           THEN Finish(t, c, Raise("AttributeError"))
           ELSE /\ user' = [user EXCEPT ![t] = found.val]
                /\ Suspend(t, c, "uib_load_bans")
    /\ UNCHANGED <<users, bans>>

\* what a call does from its open session up to its next await; hist is the
\* history of the call so far
Begin(t, c, hist) ==
    CASE c.name \in {"proxy_is_banned", "user_and_proxy_are_banned"} -> SelectBanHost(t, c)
      [] c.name = "new_bot_account" -> MergeUserCommit(t, c)
      [] c.name = "get_bot" -> SelectUser(t, c)
      [] c.name = "issue_ban" -> MergeBanCommit(t, c)
      [] c.name = "user_is_banned" ->
            /\ UibSelectUser(t, c)
            /\ atomic' = [atomic EXCEPT ![t] =
                            IF pc'[t] = "idle" THEN {}
                            ELSE hist \cup {UserIsBannedOn(users, bans, c.username)}]

\* Database.session with the flag unset: init_db tests the flag, issues
\* create_all and awaits; the flag stays unset during the awaits
init_db_begin(t, U) ==
    /\ pc[t] = "idle"
    /\ ~initalized
    /\ \E name \in Operations : \E c \in Calls(U, name) :
            /\ op' = [op EXCEPT ![t] = c]
            /\ atomic' = [atomic EXCEPT ![t] =
                            IF c.name = "user_is_banned"
                            THEN {UserIsBannedOn(users, bans, c.username)}
                            ELSE {}]
    /\ createAllRuns' = createAllRuns + 1
    /\ pc' = [pc EXCEPT ![t] = "init_db"]
    /\ UNCHANGED <<users, bans, initalized, user, ret, arg, out>>

\* Database.init_db after create_all and commit: the flag is set, the session
\* of the call is opened and the call runs on
init_db_end(t) ==
    /\ pc[t] = "init_db"
    /\ initalized' = TRUE
    /\ Begin(t, op[t], atomic[t])
    /\ UNCHANGED <<createAllRuns, arg, out>>

\* a call of operation name made with the flag set, up to its next await
Call(t, U, name) ==
    /\ pc[t] = "idle"
    /\ initalized
    /\ \E c \in Calls(U, name) : Begin(t, c, {})
    /\ UNCHANGED <<initalized, createAllRuns, arg, out>>

proxy_is_banned(t, U) == Call(t, U, "proxy_is_banned")

new_bot_account(t, U) == Call(t, U, "new_bot_account")

get_bot(t, U) == Call(t, U, "get_bot")

issue_ban(t, U) == Call(t, U, "issue_ban")

user_is_banned(t, U) == Call(t, U, "user_is_banned")

user_and_proxy_are_banned(t, U) == Call(t, U, "user_and_proxy_are_banned")

\* user_and_proxy_are_banned after proxy_is_banned returned None: the call
\* of user_is_banned, whose session finds the flag set
uib_select_user(t) ==
    /\ pc[t] = "uib_select_user"
    /\ initalized
    /\ UibSelectUser(t, op[t])
    /\ UNCHANGED <<initalized, createAllRuns, atomic, arg, out>>

\* Database.user_is_banned, second statement: the load of user.bans
uib_load_bans(t) ==
    /\ pc[t] = "uib_load_bans"
    /\ IF BansOfUser(bans, user[t][1]) # {}
       THEN Finish(t, op[t], Return(Some(TRUE)))
            /\ atomic' = [atomic EXCEPT ![t] = {}]
       ELSE Suspend(t, op[t], "uib_select_real_user") /\ UNCHANGED <<user, atomic>>
    /\ UNCHANGED <<users, bans, initalized, createAllRuns, arg, out>>

\* Database.user_is_banned, third statement: the select of the bans that name
\* the user
uib_select_real_user(t) ==
    /\ pc[t] = "uib_select_real_user"
    /\ LET named == OneOrNone(BansByRealUser(bans, op[t].username))
       IN  IF named.exc # "" THEN Finish(t, op[t], named)
           ELSE IF named.val # None THEN Finish(t, op[t], Return(Some(TRUE)))
           ELSE Finish(t, op[t], Return(Some(FALSE)))
    /\ atomic' = [atomic EXCEPT ![t] = {}]
    /\ UNCHANGED <<users, bans, initalized, createAllRuns, arg, out>>

\* one step of task t, its calls taking their arguments from U
Step(t, U) ==
    \/ init_db_begin(t, U)
    \/ init_db_end(t)
    \/ proxy_is_banned(t, U)
    \/ new_bot_account(t, U)
    \/ get_bot(t, U)
    \/ issue_ban(t, U)
    \/ user_is_banned(t, U)
    \/ user_and_proxy_are_banned(t, U)
    \/ uib_select_user(t)
    \/ uib_load_bans(t)
    \/ uib_select_real_user(t)

AllInputs ==
    [names |-> Names, creds |-> Credentials, texts |-> BanTexts,
     proxies |-> Proxies, lookups |-> Proxies, rekeyed |-> {}]

\* one caller that awaits each call before it makes the next
Next == Step("t1", AllInputs)

Spec == Init /\ [][Next]_vars

ConcInputs ==
    [names |-> {<<"a">>}, creds |-> {[password |-> <<"p">>, accountID |-> 5]},
     texts |-> {TextNamesA},
     proxies |-> { <<"h">>, <<"g", ":", "1">> }, lookups |-> { <<"h">>, <<"g", ":", "1">> },
     rekeyed |-> {}]

\* two tasks whose calls interleave at their awaits
NextConc == \E t \in Tasks : Step(t, ConcInputs)

SpecConc == Init /\ [][NextConc]_vars

\* the empty name among the names; bans issued for the bare and the scheme
\* form of an address, lookups made with the host:port form; the caller may
\* have set the password of an account object it holds to "q"
EdgeInputs ==
    [names |-> {<<>>, <<"a">>}, creds |-> {[password |-> <<"p">>, accountID |-> 5]},
     texts |-> {TextNoUser},
     proxies |-> {BareH, SchemeH, BareG}, lookups |-> {PortH, BareG},
     rekeyed |-> {<<"q">>}]

\* one caller, as in Next, with the inputs of EdgeInputs
NextEdge == Step("t1", EdgeInputs)

SpecEdge == Init /\ [][NextEdge]_vars

----------------------------------------------------------------------------
\* Direct calls of the module-level functions

\* bound on the length of a ban text
MaxLen == 6

BanChars == {"_", "(", ")", " ", "a"}

\* the texts over chars of length at most n
TextsUpTo(chars, n) == UNION {[1..k -> chars] : k \in 0..n}

StoreUntouched ==
    UNCHANGED <<users, bans, initalized, createAllRuns, pc, op, user, ret, atomic>>

InitParse ==
    /\ Init
    /\ arg = NoArg

\* the caller picks a ban text
PickText ==
    /\ arg = NoArg
    /\ \E s \in TextsUpTo(BanChars, MaxLen) :
            arg' = [fn |-> "parse_ban", raw_ban_str |-> s]
    /\ UNCHANGED out
    /\ StoreUntouched

\* parse_ban(raw_ban_str) is evaluated
ParseBan ==
    /\ arg.fn = "parse_ban"
    /\ out = NoOut
    /\ out' = parse_ban(arg.raw_ban_str)
    /\ UNCHANGED arg
    /\ StoreUntouched

NextParse == PickText \/ ParseBan

SpecParse == InitParse /\ [][NextParse]_vars

\* bounds on the lengths of the data and of the key of cyclic_xor
MaxData == 3
MaxKey == 2

\* the byte values data and key are made of
ByteSamples == {0, 1, 90, 255}

\* the caller picks data and a key
PickXor ==
    /\ arg = NoArg
    /\ \E d \in TextsUpTo(ByteSamples, MaxData) : \E k \in TextsUpTo(ByteSamples, MaxKey) :
            arg' = [fn |-> "cyclic_xor", data |-> d, key |-> k, plain |-> d, round |-> 1]
    /\ UNCHANGED out
    /\ StoreUntouched

\* cyclic_xor(data, key) is evaluated
CyclicXor ==
    /\ arg.fn = "cyclic_xor"
    /\ out = NoOut
    /\ out' = cyclic_xor(arg.data, arg.key)
    /\ UNCHANGED arg
    /\ StoreUntouched

\* the caller passes the bytes it got back through cyclic_xor with the same key
CyclicXorAgain ==
    /\ arg.fn = "cyclic_xor"
    /\ arg.round = 1
    /\ out # NoOut
    /\ out.exc = ""
    /\ arg' = [arg EXCEPT !.data = out.val, !.round = 2]
    /\ out' = cyclic_xor(out.val, arg.key)
    /\ StoreUntouched

NextXor == PickXor \/ CyclicXor \/ CyclicXorAgain

SpecXor == InitParse /\ [][NextXor]_vars

----------------------------------------------------------------------------
\* Properties of the store operations

\* the finished call of the single caller of Spec and its outcome; in Spec
\* every write to the store ends a call, so the store is as that call left it
Last == ret["t1"]

\* the ban text is well formed: parse_ban returns for it
WellFormed(text) == ParsedBan[text].exc = ""

\* name is banned in the store: an account of that name owns a ban, or a ban
\* names it as attributed user
Banned(us, bs, name) ==
    \/ \E u \in us : u.name = name /\ \E b \in bs : b.user_id = Some(u.id)
    \/ \E b \in bs : b.real_user = Some(name)

\* the host each proxy of the callers denotes
HostNamed ==
    [p \in Proxies \cup AddressForms |->
        IF p \in {<<"g", ":", "1">>, BareG} THEN <<"g">> ELSE <<"h">>]

\* C1: the store holds at most one Ban per host, and a recordBan with a well
\* formed text succeeds and leaves, as the single record of its host, the
\* record with its raw text, attributed user and owning account
C1_BanUpsert ==
    /\ \A b1, b2 \in bans : b1.host = b2.host => b1 = b2
    /\ (Last.call.name = "issue_ban" /\ WellFormed(Last.call.ban_str)) =>
        /\ Last.exc = ""
        /\ \E b \in bans :
            /\ BansByHost(bans, Some(HostNamed[Last.call.proxy])) = {b}
            /\ b.raw_ban_str = Last.call.ban_str
            /\ b.real_user = ParsedBan[Last.call.ban_str].val
            /\ b.user_id = IF Last.call.caused_by = None THEN None
                           ELSE Some(Last.call.caused_by[1].id)

\* C2: there is exactly one Account per registered name, and after an
\* upsertAccount findAccount gives the one record of its name, which holds
\* the secret and external id of that call
C2_AccountUpsert ==
    /\ \A u1, u2 \in users : u1.name = u2.name => u1 = u2
    /\ Last.call.name = "new_bot_account" =>
        \E u \in users :
            /\ OneOrNone(UsersByName(users, Last.call.username)) = Return(Some(u))
            /\ u.password = EncodeUtf8(Last.call.cred.password)
            /\ u.accountID = Last.call.cred.accountID

\* C3: isAccountBanned(name) returns, without an error, whether the account
\* of that name owns a ban or a ban names it, registered or not
C3_AccountBanned ==
    Last.call.name = "user_is_banned" =>
        /\ Last.exc = ""
        /\ Last.val = Some(Banned(users, bans, Last.call.username))

\* C4: the composed check reports not safe (True) exactly when the host is
\* banned or the name is banned, and never ends in an error
C4_CheckSafety ==
    Last.call.name = "user_and_proxy_are_banned" =>
        /\ Last.exc = ""
        /\ Last.val = Some(\/ \E b \in bans : b.host = Some(HostNamed[Last.call.proxy])
                           \/ Banned(users, bans, Last.call.username))

\* C5: schema creation is executed at most once per Database
C5_CreateOnce == createAllRuns <= 1

\* C6: under concurrent upserts the store never holds two Accounts of one
\* name nor two Bans of one host
C6_NoDuplicateKeys ==
    /\ \A u1, u2 \in users : u1.name = u2.name => u1.id = u2.id
    /\ \A b1, b2 \in bans : b1.host = b2.host => b1.id = b2.id

\* C7: when only recordBan calls ran during an isAccountBanned (the accounts
\* of its name are the one it read), its outcome is its outcome on one store
\* state that existed during the call
C7_AtomicCheck ==
    [][\A t \in Tasks :
        (/\ op[t].name = "user_is_banned"
         /\ pc'[t] = "idle"
         /\ user[t] # None
         /\ UsersByName(users, op[t].username) = {user[t][1]}) =>
            [exc |-> ret'[t].exc, val |-> ret'[t].val] \in atomic[t]]_vars

\* C8: while a ban owned by a registered account is in the store,
\* isAccountBanned of the name of that account returns true
C8_OwnerBanned ==
    (/\ Last.call.name = "user_is_banned"
     /\ \E u \in users : u.name = Last.call.username /\ BansOfUser(bans, u) # {}) =>
        (Last.exc = "" /\ Last.val = Some(TRUE))

\* the lookup of a banned host returns its Ban
C9_Found ==
    (/\ Last.call.name = "proxy_is_banned"
     /\ \E b \in bans : b.host = Some(HostNamed[Last.call.proxy])) =>
        /\ Last.exc = ""
        /\ Last.val # None
        /\ Last.val[1] \in bans
        /\ Last.val[1].host = Some(HostNamed[Last.call.proxy])

\* no step removes or changes an Account or a Ban
C9_Kept == users \subseteq users' /\ bans \subseteq bans'

\* C9: bans are never forgotten: no operation deletes an Account or a Ban, and
\* isHostBanned of a host with a recorded ban returns that Ban, neither absent
\* nor an error, whatever calls were made since
C9_NeverForgotten == [][C9_Kept]_vars /\ []C9_Found

\* a ban recorded under one form of the address was found under another form
\* after an account was registered
C9_Witness ==
    /\ Last.call.name = "proxy_is_banned"
    /\ Last.call.proxy = <<"h">>
    /\ Last.val # None
    /\ Last.val[1].raw_ban_str = TextNamesA
    /\ users # {}
    /\ Cardinality(bans) = 2

\* C12: a lookup that finds nothing returns None without an error: get_bot of
\* a name with no Account and proxy_is_banned of a host with no Ban
C12_NotFoundIsAbsent ==
    /\ (/\ Last.call.name = "get_bot"
        /\ ~\E u \in users : u.name = Last.call.username) =>
            (Last.exc = "" /\ Last.val = None)
    /\ (/\ Last.call.name = "proxy_is_banned"
        /\ ~\E b \in bans : b.host = Some(HostNamed[Last.call.proxy])) =>
            (Last.exc = "" /\ Last.val = None)

\* get_bot of a name without Account returned None from a store that holds
\* another Account and a Ban
C12_Witness ==
    /\ Last.call.name = "get_bot"
    /\ Last.call.username = <<"b">>
    /\ Last.exc = ""
    /\ Last.val = None
    /\ users # {}
    /\ bans # {}

C14_SameHostKey ==
    /\ \A b \in bans : b.host \in {Some(<<"h">>), Some(<<"g">>)}
    /\ (Last.call.name = "issue_ban" /\ Last.exc = "") =>
            \E b \in bans : b.host = Some(HostNamed[Last.call.proxy])
    /\ Last.call.name = "proxy_is_banned" =>
            /\ Last.exc = ""
            /\ (Last.val # None) <=>
                    (\E b \in bans : b.host = Some(HostNamed[Last.call.proxy]))
            /\ Last.val # None => Last.val[1].host = Some(HostNamed[Last.call.proxy])

\* a lookup with the host:port form found the ban of host h, which was issued
\* for the bare or the scheme form; nothing is stored for host g
C14_Witness ==
    /\ Last.call.name = "proxy_is_banned"
    /\ Last.call.proxy = PortH
    /\ Last.val # None
    /\ Last.val[1].host = Some(<<"h">>)
    /\ Cardinality(bans) = 1

----------------------------------------------------------------------------
\* Properties of parse_ban

Positions(s, c) == {i \in 1..Len(s) : s[i] = c}

Least(S) == CHOOSE i \in S : \A j \in S : i <= j
Greatest(S) == CHOOSE i \in S : \A j \in S : j <= i

\* the text after the second "_", without its trailing whitespace
ReasonOf(s) ==
    LET first == Least(Positions(s, "_"))
        second == Least(Positions(s, "_") \ {first})
        rest == SubSeq(s, second + 1, Len(s))
        solid == {i \in 1..Len(rest) : rest[i] \notin Whitespace}
    IN  IF solid = {} THEN <<>> ELSE SubSeq(rest, 1, Greatest(solid))

\* the attributed user the text carries: what stands strictly between the
\* last "(" and the last ")" of a reason that ends with ")" and has a "("
AttributedUser(s) ==
    LET reason == ReasonOf(s)
    IN  IF /\ Len(reason) > 0
           /\ reason[Len(reason)] = ")"
           /\ Positions(reason, "(") # {}
        THEN Some(SubSeq(reason, Greatest(Positions(reason, "(")) + 1,
                         Greatest(Positions(reason, ")")) - 1))
        ELSE None

\* C10: for a text with at least two "_", parse_ban returns the attributed
\* user of the reason after the second "_", or absent when there is none
C10_ExtractAttributedUser ==
    (/\ arg.fn = "parse_ban"
     /\ out # NoOut
     /\ Cardinality(Positions(arg.raw_ban_str, "_")) >= 2) =>
        out = Return(AttributedUser(arg.raw_ban_str))

\* a text with two "(" was parsed to the user after the last "("
C10_Witness ==
    /\ arg.fn = "parse_ban"
    /\ arg.raw_ban_str = <<"_", "_", "(", "(", "a", ")">>
    /\ out = Return(Some(<<"a">>))

\* C11: for a text with fewer than two "_", parse_ban ends in an error; it
\* returns neither absent nor a user
C11_MalformedRaises ==
    (/\ arg.fn = "parse_ban"
     /\ out # NoOut
     /\ Cardinality(Positions(arg.raw_ban_str, "_")) < 2) =>
        (out.exc = "ValueError" /\ out.val = None)

\* a text with one "_" whose tail names a user was parsed to an error
C11_Witness ==
    /\ arg.fn = "parse_ban"
    /\ arg.raw_ban_str = <<"a", "_", "(", "a", ")">>
    /\ out = Raise("ValueError")

----------------------------------------------------------------------------
\* Properties of cyclic_xor

\* bit j of byte n is set
Bit(n, j) == (n \div (2 ^ j)) % 2 = 1

\* x is the exclusive or of the bytes a and b
IsXor(x, a, b) ==
    /\ x \in 0..255
    /\ \A j \in 0..7 : Bit(x, j) <=> (Bit(a, j) # Bit(b, j))

\* C15: cyclic_xor with an empty key ends in an error for every data
C15_EmptyKeyFails ==
    (arg.fn = "cyclic_xor" /\ arg.key = <<>> /\ out # NoOut) => out.exc # ""

\* C16: for a non-empty key the output has the length of the data, byte i is
\* data[i] XOR key[i mod len(key)], and a second pass with the same key gives
\* the data back
C16_XorInvolution ==
    (arg.fn = "cyclic_xor" /\ arg.key # <<>> /\ out # NoOut) =>
        /\ out.exc = ""
        /\ Len(out.val) = Len(arg.data)
        /\ \A i \in 1..Len(arg.data) :
                IsXor(out.val[i], arg.data[i], arg.key[((i - 1) % Len(arg.key)) + 1])
        /\ arg.round = 2 => out.val = arg.plain

\* data longer than the key went through two passes: the first changed it,
\* the second gave it back
C16_Witness ==
    /\ arg.fn = "cyclic_xor"
    /\ arg.round = 2
    /\ arg.plain = <<1, 90, 255>>
    /\ arg.key = <<255, 90>>
    /\ arg.data = <<254, 0, 0>>
    /\ out = Return(<<1, 90, 255>>)

----------------------------------------------------------------------------
\* Further properties of the store operations

\* the step of the single caller is the host check of a call: the call is
\* made with the flag set, or resumes after init_db
HostCheckStep == (pc["t1"] = "idle" /\ initalized) \/ pc["t1"] = "init_db"

\* the call the single caller is in after the step, finished or suspended
CallAfter == IF pc'["t1"] = "idle" THEN ret'["t1"].call ELSE op'["t1"]

\* the host check of a composed check on a banned host ends the call with
\* True in that same step, without reading any account
C17_EndsAtHostCheck ==
    (/\ HostCheckStep
     /\ CallAfter.name = "user_and_proxy_are_banned"
     /\ \E b \in bans : b.host = Some(HostNamed[CallAfter.proxy])) =>
        /\ pc'["t1"] = "idle"
        /\ ret'["t1"].exc = ""
        /\ ret'["t1"].val = Some(TRUE)
        /\ user' = user

\* a composed check that is past its host check, in the account check, is
\* one whose host is not banned
C17_AccountCheckOnlyIfHostFree ==
    (/\ op["t1"].name = "user_and_proxy_are_banned"
     /\ pc["t1"] \in {"uib_select_user", "uib_load_bans", "uib_select_real_user"}) =>
        ~ \E b \in bans : b.host = Some(HostNamed[op["t1"].proxy])

\* C17: checkSafety on a banned host returns not safe from the host check
\* alone; the account check is not performed, whatever the name
C17_ShortCircuit ==
    [][C17_EndsAtHostCheck]_vars /\ []C17_AccountCheckOnlyIfHostFree

\* the composed check returned True for a banned host and a name that is not
\* registered, for which the account check would have ended in an error
C17_Witness ==
    /\ Last.call.name = "user_and_proxy_are_banned"
    /\ \E b \in bans : b.host = Some(HostNamed[Last.call.proxy])
    /\ UsersByName(users, Last.call.username) = {}
    /\ Last.exc = ""
    /\ Last.val = Some(TRUE)

\* C18: with two or more bans on distinct hosts that name u, isAccountBanned(u)
\* of a registered u returns true and does not end in an error
C18_ManyBansNameUser ==
    (/\ Last.call.name = "user_is_banned"
     /\ Cardinality(UsersByName(users, Last.call.username)) = 1
     /\ \E b1, b2 \in bans :
            /\ b1.host # b2.host
            /\ b1.real_user = Some(Last.call.username)
            /\ b2.real_user = Some(Last.call.username)) =>
        (Last.exc = "" /\ Last.val = Some(TRUE))

\* the step ends a recordBan whose text has fewer than two "_": it ends in
\* the error of the parser and the store is as before
C19_Rejected ==
    (/\ pc'["t1"] = "idle"
     /\ ret'["t1"].call.name = "issue_ban"
     /\ Cardinality(Positions(ret'["t1"].call.ban_str, "_")) < 2) =>
        /\ ret'["t1"].exc = "ValueError"
        /\ bans' = bans
        /\ users' = users

\* C19: recordBan with a ban text lacking two "_" ends in the format error
\* and leaves every Ban and every Account as it was
C19_MalformedLeavesStore == [][C19_Rejected]_vars

\* a recordBan with a malformed text for a host not yet banned, caused by a
\* registered account, ended in the error and no ban is stored
C19_Witness ==
    /\ Last.call.name = "issue_ban"
    /\ Last.call.ban_str = TextOneSep
    /\ Last.call.caused_by # None
    /\ Last.exc = "ValueError"
    /\ users # {}
    /\ bans = {}

\* the step ends a recordBan for host h: the bans of the other hosts and all
\* accounts are as before
C20_Frame ==
    (pc'["t1"] = "idle" /\ ret'["t1"].call.name = "issue_ban") =>
        LET h == Some(HostNamed[ret'["t1"].call.proxy])
        IN  /\ {b \in bans' : b.host # h} = {b \in bans : b.host # h}
            /\ \A u \in users : \E v \in users' :
                    /\ v.id = u.id
                    /\ v.name = u.name
                    /\ v.password = u.password
                    /\ v.accountID = u.accountID
            /\ Cardinality(users') = Cardinality(users)

\* C20: recordBan for host h changes only the Ban of h; every other Ban and
\* the name, secret and external id of every Account stay as they were
C20_OnlyBanOfHostChanges == [][C20_Frame]_vars

====
